---- MODULE Spec2Model ----
(***************************************************************************)
(* Plan execution and reversal log of the SheetMind sidebar (App.tsx).     *)
(*                                                                         *)
(* The state is the React state of App (messages, isLoading), one record   *)
(* per in-flight handleSend / executeSteps call and per in-flight          *)
(* handleUndo call, and history variables that log the calls made on the   *)
(* document bridge (google.script.run).  Every action is one synchronous   *)
(* block of a handler: JavaScript runs a handler to its next await without *)
(* interleaving, so the await points are the only places where another     *)
(* handler can run.  A setMessages call takes effect in the action that    *)
(* makes it, and a handler reads the messages of the current state: React  *)
(* renders, and rebinds the handlers, before the next event is handled.    *)
(*                                                                         *)
(* Strings whose contents the code inspects or builds (bridge results,     *)
(* message contents) are sequences of one-character strings; names that    *)
(* are only compared (sheet names, cell references) are TLA+ strings, with *)
(* "" standing for an absent (undefined) optional field: both are falsy in *)
(* the JavaScript conditions that read them.  Array indices are 1-based    *)
(* here and 0-based in the source.                                         *)
(***************************************************************************)
EXTENDS Integers, Sequences, FiniteSets, TLC

\* ------------------------------------------------------------------ bounds

\* Longest plan (number of steps) a response may carry.
MaxSteps == 3
\* Number of handleUndo calls that get past the guard in one behaviour of
\* SpecUndo.
MaxUndos == 2

\* ------------------------------------------------------------- optionals

None == <<>>
Some(x) == <<x>>
Truthy(s) == s # ""

\* ---------------------------------------------------------------- strings

ErrorMarker == <<"E", "r", "r", "o", "r">>
ActionFailedPrefix == <<"A", "c", "t", "i", "o", "n", " ", "f", "a", "i", "l", "e", "d", ":", " ">>
UndoFailedPrefix == <<"U", "n", "d", "o", " ", "f", "a", "i", "l", "e", "d", ":", " ">>
NotInSheets == <<"N", "o", "t", " ", "r", "u", "n", "n", "i", "n", "g", " ", "i", "n", " ", "G", "o", "o", "g", "l", "e", " ", "S", "h", "e", "e", "t", "s">>
UndoCompletePrefix == <<"U", "n", "d", "o", " ", "c", "o", "m", "p", "l", "e", "t", "e", ":", " ">>

\* Texts the document bridge may hand back (inputs of the model).
TxtCreated == <<"C", "r", "e", "a", "t", "e", "d">>
TxtInvalid == <<"E", "r", "r", "o", "r", ":", " ", "i", "n", "v", "a", "l", "i", "d", " ", "r", "a", "n", "g", "e">>
TxtBoom == <<"b", "o", "o", "m">>
TxtReverted == <<"R", "e", "v", "e", "r", "t", "e", "d">>

\* String.prototype.startsWith
StartsWith(s, p) == Len(s) >= Len(p) /\ SubSeq(s, 1, Len(p)) = p

\* Array.prototype.includes
Includes(seq, x) == \E k \in DOMAIN seq : seq[k] = x

\* -------------------------------------------------------- document bridge

\* What a google.script.run call can do: call the success handler with the
\* server function's text, call the failure handler with an error whose
\* message is text, or throw at once because google is not defined.
Outcome(kind, text) == [kind |-> kind, text |-> text]

executeSheetAction(o) ==
  CASE o.kind = "success" -> o.text
    [] o.kind = "failure" -> ActionFailedPrefix \o o.text
    [] o.kind = "nobridge" -> NotInSheets

executeStepAction(o) == executeSheetAction(o)

undoSheetActionsGAS(o) ==
  CASE o.kind = "success" -> o.text
    [] o.kind = "failure" -> UndoFailedPrefix \o o.text
    [] o.kind = "nobridge" -> NotInSheets

ActionOutcomes ==
  { Outcome("success", TxtCreated), Outcome("success", TxtInvalid),
    Outcome("failure", TxtBoom), Outcome("nobridge", <<>>) }

UndoOutcomes ==
  { Outcome("success", TxtReverted), Outcome("failure", TxtBoom),
    Outcome("nobridge", <<>>) }

\* ---------------------------------------------------------------- actions

SheetAction(kind, name, sheet, cell, range) ==
  [action |-> kind, name |-> name, sheet |-> sheet, cell |-> cell, range |-> range]

\* The actions the plans of Spec are made of.
PlanActions ==
  { SheetAction("createSheet", "Summary", "", "", ""),
    SheetAction("setFormula", "", "Summary", "B2", ""),
    SheetAction("readRange", "", "Sheet1", "", "A1:B3") }

StepAction(k, a) == [step |-> k, description |-> "d", action |-> a]

\* res.steps: every step list of at most n steps over the actions of A.
PlansOver(A, n) ==
  { [k \in DOMAIN as |-> StepAction(k, as[k])] : as \in UNION { [1..len -> A] : len \in 0..n } }

\* --------------------------------------------------------- buildUndoInfo

EmptyUndoInfo == [sheetsToDelete |-> <<>>, cellsToClear |-> <<>>]

Cell(sheet, range) == [sheet |-> sheet, range |-> range]

\* One iteration of the for loop of buildUndoInfo.
UndoInfoStepUntracked(info, action) ==
  IF action.action = "createSheet" /\ Truthy(action.name)
  THEN [info EXCEPT !.sheetsToDelete = Append(@, action.name)]
  ELSE IF action.action = "setFormula" /\ Truthy(action.sheet) /\ Truthy(action.cell)
  THEN [info EXCEPT !.cellsToClear = Append(@, Cell(action.sheet, action.cell))]
  ELSE IF action.action = "setValues" /\ Truthy(action.sheet) /\ Truthy(action.range)
  THEN [info EXCEPT !.cellsToClear = Append(@, Cell(action.sheet, action.range))]
  ELSE info

UndoInfoStepCellForRange(info, action) ==
  IF action.action = "createSheet" /\ Truthy(action.name)
  THEN [info EXCEPT !.sheetsToDelete = Append(@, action.name)]
  ELSE IF action.action = "setFormula" /\ Truthy(action.sheet) /\ Truthy(action.cell)
  THEN IF ~Includes(info.sheetsToDelete, action.sheet)
       THEN [info EXCEPT !.cellsToClear = Append(@, Cell(action.sheet, action.cell))]
       ELSE info
  ELSE IF action.action = "setValues" /\ Truthy(action.sheet) /\ Truthy(action.range)
  THEN IF ~Includes(info.sheetsToDelete, action.sheet)
       THEN [info EXCEPT !.cellsToClear = Append(@, Cell(action.sheet, action.cell))]
       ELSE info
  ELSE info

UndoInfoStepTrackingFormat(info, action) ==
  IF action.action = "createSheet" /\ Truthy(action.name)
  THEN [info EXCEPT !.sheetsToDelete = Append(@, action.name)]
  ELSE IF action.action = "setFormula" /\ Truthy(action.sheet) /\ Truthy(action.cell)
  THEN IF ~Includes(info.sheetsToDelete, action.sheet)
       THEN [info EXCEPT !.cellsToClear = Append(@, Cell(action.sheet, action.cell))]
       ELSE info
  ELSE IF action.action \in {"setValues", "formatRange"} /\ Truthy(action.sheet)
          /\ Truthy(action.range)
  THEN IF ~Includes(info.sheetsToDelete, action.sheet)
       THEN [info EXCEPT !.cellsToClear = Append(@, Cell(action.sheet, action.range))]
       ELSE info
  ELSE info

UndoInfoStep(info, action) ==
  IF action.action = "createSheet" /\ Truthy(action.name)
  THEN [info EXCEPT !.sheetsToDelete = Append(@, action.name)]
  ELSE IF action.action = "setFormula" /\ Truthy(action.sheet) /\ Truthy(action.cell)
  THEN IF ~Includes(info.sheetsToDelete, action.sheet)
       THEN [info EXCEPT !.cellsToClear = Append(@, Cell(action.sheet, action.cell))]
       ELSE info
  ELSE IF action.action = "setValues" /\ Truthy(action.sheet) /\ Truthy(action.range)
  THEN IF ~Includes(info.sheetsToDelete, action.sheet)
       THEN [info EXCEPT !.cellsToClear = Append(@, Cell(action.sheet, action.range))]
       ELSE info
  ELSE info

RECURSIVE UndoInfoLoop(_, _, _)
UndoInfoLoop(steps, k, info) ==
  IF k > Len(steps) THEN info
  ELSE UndoInfoLoop(steps, k + 1, UndoInfoStep(info, steps[k].action))

buildUndoInfo(steps) == UndoInfoLoop(steps, 1, EmptyUndoInfo)

\* ------------------------------------------------------------------ state

VARIABLES
  messages,       \* useState<Message[]>
  isLoading,      \* useState(false)
  send,           \* the handleSend calls, with the locals of executeSteps
  undo,           \* the handleUndo calls that got past the guard
  nextId,         \* next fresh message id (crypto.randomUUID, res.message_id)
  applyLog,       \* history: the executeStepAction calls, in order
  undoLog,        \* history: the undoSheetActionsGAS calls, in order
  undoSucceeded,  \* history: ids with an undo call whose success handler ran
  lastTrigger,    \* history: what the latest handleUndo call did
  planner         \* a call of buildUndoInfo on its own: argument and result

vars == <<messages, isLoading, send, undo, nextId, applyLog, undoLog, undoSucceeded, lastTrigger,
          planner>>

\* The calls are numbered in the order they start.
SendProcs == DOMAIN send
UndoProcs == DOMAIN undo

IdleSend == [pc |-> "idle", userId |-> 0, messageId |-> 0, steps |-> <<>>, i |-> 0,
             result |-> <<>>, successCount |-> 0, errorCount |-> 0]
IdleUndo == [pc |-> "idle", messageId |-> 0, result |-> <<>>]
IdlePlanner == [steps |-> <<>>, undoInfo |-> None]

\* The state after App is mounted, with room for nSends handleSend calls and
\* nUndos handleUndo calls.
Mounted(nSends, nUndos) ==
  /\ messages = <<>>
  /\ isLoading = FALSE
  /\ send = [p \in 1..nSends |-> IdleSend]
  /\ undo = [u \in 1..nUndos |-> IdleUndo]
  /\ nextId = 1
  /\ applyLog = <<>>
  /\ undoLog = <<>>
  /\ undoSucceeded = {}
  /\ lastTrigger = "none"

\* Spec follows one handleSend call, with every plan of at most MaxSteps
\* steps, and one handleUndo call.
Init == Mounted(1, 1) /\ planner = IdlePlanner

\* --------------------------------------------------------------- messages

Message(id, role, content, steps) ==
  [id |-> id, role |-> role, content |-> content, steps |-> steps,
   undoInfo |-> None, undone |-> FALSE]

\* messages.find((m) => m.id === messageId): None when there is none.
Find(msgs, messageId) ==
  IF \E k \in DOMAIN msgs : msgs[k].id = messageId
  THEN Some(msgs[CHOOSE k \in DOMAIN msgs :
              /\ msgs[k].id = messageId
              /\ \A j \in 1..(k - 1) : msgs[j].id # messageId])
  ELSE None

\* prev.filter((m) => m.id !== id)
RECURSIVE Without(_, _)
Without(msgs, id) ==
  IF msgs = <<>> THEN <<>>
  ELSE IF Head(msgs).id = id THEN Without(Tail(msgs), id)
  ELSE <<Head(msgs)>> \o Without(Tail(msgs), id)

\* The setMessages updater of executeSteps that marks step i executing.
MarkExecutingUpTo(msgs, messageId, i) ==
  [k \in DOMAIN msgs |->
    IF msgs[k].id # messageId \/ msgs[k].steps = None THEN msgs[k]
    ELSE [msgs[k] EXCEPT !.steps = Some(
           [idx \in DOMAIN msgs[k].steps[1] |->
             IF idx <= i THEN [msgs[k].steps[1][idx] EXCEPT !.status = "executing"]
             ELSE msgs[k].steps[1][idx]])]]

MarkExecuting(msgs, messageId, i) ==
  [k \in DOMAIN msgs |->
    IF msgs[k].id # messageId \/ msgs[k].steps = None THEN msgs[k]
    ELSE [msgs[k] EXCEPT !.steps = Some(
           [idx \in DOMAIN msgs[k].steps[1] |->
             IF idx = i THEN [msgs[k].steps[1][idx] EXCEPT !.status = "executing"]
             ELSE msgs[k].steps[1][idx]])]]

\* The setMessages updater of executeSteps that stores status and result.
SetStepResult(msgs, messageId, i, status, result) ==
  [k \in DOMAIN msgs |->
    IF msgs[k].id # messageId \/ msgs[k].steps = None THEN msgs[k]
    ELSE [msgs[k] EXCEPT !.steps = Some(
           [idx \in DOMAIN msgs[k].steps[1] |->
             IF idx = i
             THEN [msgs[k].steps[1][idx] EXCEPT !.status = status, !.result = Some(result)]
             ELSE msgs[k].steps[1][idx]])]]

\* The setMessages updater of executeSteps that attaches the undo info.
AttachUndoInfo(msgs, messageId, undoInfo) ==
  [k \in DOMAIN msgs |->
    IF msgs[k].id = messageId THEN [msgs[k] EXCEPT !.undoInfo = Some(undoInfo)]
    ELSE msgs[k]]

\* The setMessages updater of handleUndo.
MarkUndoneClearing(msgs, messageId) ==
  [k \in DOMAIN msgs |->
    IF msgs[k].id = messageId THEN [msgs[k] EXCEPT !.undone = TRUE, !.undoInfo = None]
    ELSE msgs[k]]

MarkUndoneToggling(msgs, messageId) ==
  [k \in DOMAIN msgs |->
    IF msgs[k].id = messageId THEN [msgs[k] EXCEPT !.undone = ~@]
    ELSE msgs[k]]

MarkUndone(msgs, messageId) ==
  [k \in DOMAIN msgs |->
    IF msgs[k].id = messageId THEN [msgs[k] EXCEPT !.undone = TRUE]
    ELSE msgs[k]]

\* ----------------------------------------------------------- executeSteps

\* const status = result.startsWith("Error") ? "error" : "done"
StepStatusOnAnyFailure(result) ==
  IF StartsWith(result, ErrorMarker) \/ StartsWith(result, ActionFailedPrefix)
  THEN "error" ELSE "done"

StepStatus(result) == IF StartsWith(result, ErrorMarker) THEN "error" ELSE "done"

\* if (status === "error") { errorCount++; break; }
BreaksLoopNever(status) == FALSE

BreaksLoop(status) == status = "error"

\* The end of executeSteps, after the loop: buildUndoInfo(steps) reads the
\* steps parameter (res.steps, which carries no status), and the result is
\* attached when it has an entry.
AfterLoopAlwaysAttaching(msgs, steps, messageId) ==
  AttachUndoInfo(msgs, messageId, buildUndoInfo(steps))

AfterLoop(msgs, steps, messageId) ==
  LET undoInfo == buildUndoInfo(steps)
  IN  IF Len(undoInfo.sheetsToDelete) > 0 \/ Len(undoInfo.cellsToClear) > 0
      THEN AttachUndoInfo(msgs, messageId, undoInfo)
      ELSE msgs

ApplyCall(messageId, i, action) == [messageId |-> messageId, index |-> i, action |-> action]

\* ------------------------------------------------------------- handleSend

\* handleSend up to its first await: the user message is appended and
\* isLoading set. The input box calls it only while isLoading is false
\* (InputArea.handleSend); an option of an assistant message calls it
\* through handleQuickAction whatever isLoading is.
HandleSend(p, viaInput) ==
  /\ send[p].pc = "idle"
  /\ \A q \in 1..(p - 1) : send[q].pc # "idle"
  /\ viaInput => ~isLoading
  /\ ~viaInput => \E k \in DOMAIN messages : messages[k].role = "assistant"
  /\ messages' = Append(messages, Message(nextId, "user", <<"q">>, None))
  /\ isLoading' = TRUE
  /\ nextId' = nextId + 1
  /\ send' = [send EXCEPT ![p] = [@ EXCEPT !.pc = "awaitResponse", !.userId = nextId]]
  /\ UNCHANGED <<undo, applyLog, undoLog, undoSucceeded, lastTrigger, planner>>

\* chatApi.sendMessage resolved with steps: the assistant message is
\* appended with every step pending and executeSteps runs to its first
\* await, the call of executeStepAction for the first step.
ReceivePlan(p, plans) ==
  /\ send[p].pc = "awaitResponse"
  /\ \E steps \in plans :
       /\ Len(steps) > 0
       /\ LET pending == [k \in DOMAIN steps |->
                           [step |-> steps[k].step, description |-> steps[k].description,
                            action |-> steps[k].action, status |-> "pending", result |-> None]]
              appended == Append(messages, Message(nextId, "assistant", <<"a">>, Some(pending)))
          IN  /\ messages' = MarkExecuting(appended, nextId, 1)
              /\ applyLog' = Append(applyLog, ApplyCall(nextId, 1, steps[1].action))
              /\ send' = [send EXCEPT ![p] = [@ EXCEPT !.pc = "awaitAction", !.messageId = nextId,
                                                       !.steps = steps, !.i = 1]]
  /\ nextId' = nextId + 1
  /\ UNCHANGED <<isLoading, undo, undoLog, undoSucceeded, lastTrigger, planner>>

\* chatApi.sendMessage resolved without steps or with an empty step list
\* (and without sheet_action): the assistant message is appended without
\* steps, executeSteps is not called and handleSend ends.
ReceiveReply(p) ==
  /\ send[p].pc = "awaitResponse"
  /\ messages' = Append(messages, Message(nextId, "assistant", <<"a">>, None))
  /\ nextId' = nextId + 1
  /\ isLoading' = FALSE
  /\ send' = [send EXCEPT ![p] = [@ EXCEPT !.pc = "finished", !.messageId = nextId]]
  /\ UNCHANGED <<undo, applyLog, undoLog, undoSucceeded, lastTrigger, planner>>

\* content += "\n\n> " + actionResult
QuotePrefix == <<"\n", "\n", ">", " ">>

\* chatApi.sendMessage resolved without steps and with a sheet_action:
\* executeSheetAction is called for it and awaited; the list and isLoading
\* are as they were.
ReceiveSheetAction(p) ==
  /\ send[p].pc = "awaitResponse"
  /\ send' = [send EXCEPT ![p] = [@ EXCEPT !.pc = "awaitSheetAction"]]
  /\ UNCHANGED <<messages, isLoading, undo, nextId, applyLog, undoLog, undoSucceeded, lastTrigger,
                 planner>>

\* executeSheetAction(res.sheet_action) resolved: the assistant message is
\* appended, its content followed by the quoted result, and handleSend ends.
SheetActionResolved(p) ==
  /\ send[p].pc = "awaitSheetAction"
  /\ \E o \in ActionOutcomes :
       messages' = Append(messages,
                     Message(nextId, "assistant", <<"a">> \o QuotePrefix \o executeSheetAction(o),
                             None))
  /\ nextId' = nextId + 1
  /\ isLoading' = FALSE
  /\ send' = [send EXCEPT ![p] = [@ EXCEPT !.pc = "finished", !.messageId = nextId]]
  /\ UNCHANGED <<undo, applyLog, undoLog, undoSucceeded, lastTrigger, planner>>

\* chatApi.sendMessage rejected: on status 402 the user message is removed.
ReceiveError(p) ==
  /\ send[p].pc = "awaitResponse"
  /\ \E is402 \in BOOLEAN :
       messages' = IF is402 THEN Without(messages, send[p].userId) ELSE messages
  /\ isLoading' = FALSE
  /\ send' = [send EXCEPT ![p] = [@ EXCEPT !.pc = "finished"]]
  /\ UNCHANGED <<undo, nextId, applyLog, undoLog, undoSucceeded, lastTrigger, planner>>

\* executeStepAction resolved for step i: result is the text it returned (a
\* local of the loop body, kept in send[p].result until the next iteration
\* or the end of handleSend); the status and result are stored;
\* on an error the loop is left and executeSteps runs to its end, otherwise
\* the 300 ms delay is awaited.
StepResolved(p) ==
  /\ send[p].pc = "awaitAction"
  /\ \E o \in ActionOutcomes :
       LET result == executeStepAction(o)
           status == StepStatus(result)
           stored == SetStepResult(messages, send[p].messageId, send[p].i, status, result)
       IN  IF BreaksLoop(status)
           THEN /\ messages' = AfterLoop(stored, send[p].steps, send[p].messageId)
                /\ send' = [send EXCEPT ![p] = [@ EXCEPT !.pc = "afterRun", !.result = result,
                                                         !.errorCount = @ + 1]]
           ELSE /\ messages' = stored
                /\ send' = [send EXCEPT ![p] = [@ EXCEPT !.pc = "delay", !.result = result,
                                                         !.successCount = @ + 1]]
  /\ UNCHANGED <<isLoading, undo, nextId, applyLog, undoLog, undoSucceeded, lastTrigger, planner>>

\* The delay is over: i++, and either the next step is marked executing and
\* its action called, or the loop is over and executeSteps runs to its end.
DelayOverRetrying(p) ==
  /\ send[p].pc = "delay"
  /\ LET i == send[p].i
     IN  /\ messages' = MarkExecuting(messages, send[p].messageId, i)
         /\ applyLog' = Append(applyLog, ApplyCall(send[p].messageId, i, send[p].steps[i].action))
         /\ send' = [send EXCEPT ![p] = [@ EXCEPT !.pc = "awaitAction", !.result = <<>>]]
  /\ UNCHANGED <<isLoading, undo, nextId, undoLog, undoSucceeded, lastTrigger, planner>>

DelayOver(p) ==
  /\ send[p].pc = "delay"
  /\ LET i == send[p].i + 1
     IN  IF i <= Len(send[p].steps)
         THEN /\ messages' = MarkExecuting(messages, send[p].messageId, i)
              /\ applyLog' = Append(applyLog, ApplyCall(send[p].messageId, i, send[p].steps[i].action))
              /\ send' = [send EXCEPT ![p] = [@ EXCEPT !.pc = "awaitAction", !.i = i,
                                                       !.result = <<>>]]
         ELSE /\ messages' = AfterLoop(messages, send[p].steps, send[p].messageId)
              /\ applyLog' = applyLog
              /\ send' = [send EXCEPT ![p] = [@ EXCEPT !.pc = "afterRun", !.i = i,
                                                       !.result = <<>>]]
  /\ UNCHANGED <<isLoading, undo, nextId, undoLog, undoSucceeded, lastTrigger, planner>>

\* await executeSteps(...) resolved: the rest of handleSend, with its finally.
SendDoneKeepingLoading(p) ==
  /\ send[p].pc = "afterRun"
  /\ isLoading' = IF send[p].errorCount > 0 THEN isLoading ELSE FALSE
  /\ send' = [send EXCEPT ![p] = [@ EXCEPT !.pc = "finished", !.result = <<>>]]
  /\ UNCHANGED <<messages, undo, nextId, applyLog, undoLog, undoSucceeded, lastTrigger, planner>>

SendDone(p) ==
  /\ send[p].pc = "afterRun"
  /\ isLoading' = FALSE
  /\ send' = [send EXCEPT ![p] = [@ EXCEPT !.pc = "finished", !.result = <<>>]]
  /\ UNCHANGED <<messages, undo, nextId, applyLog, undoLog, undoSucceeded, lastTrigger, planner>>

\* handleNewChat
HandleNewChatAborting ==
  /\ messages' = <<>>
  /\ send' = [p \in SendProcs |->
               IF send[p].pc \in {"awaitAction", "delay"}
               THEN [send[p] EXCEPT !.pc = "afterRun"] ELSE send[p]]
  /\ UNCHANGED <<isLoading, undo, nextId, applyLog, undoLog, undoSucceeded, lastTrigger, planner>>

HandleNewChat ==
  /\ messages' = <<>>
  /\ UNCHANGED <<isLoading, send, undo, nextId, applyLog, undoLog, undoSucceeded, lastTrigger, planner>>

\* handleLogout: the list is emptied. Logging in again changes none of the
\* variables, so the handlers stay enabled here.
HandleLogout ==
  /\ messages' = <<>>
  /\ UNCHANGED <<isLoading, send, undo, nextId, applyLog, undoLog, undoSucceeded, lastTrigger, planner>>

\* What chatApi.getMessages returns for a message: id, role and content,
\* without steps, undoInfo or undone.
StoredMessage(id, role) == Message(id, role, <<"a">>, None)

\* The message lists handleLoadConversation may load: a conversation with no
\* message, or the conversation of one of the handleSend calls, where the
\* assistant message is stored under the id the response carried.
LoadedConversations ==
  {<<>>} \cup { <<StoredMessage(send[p].messageId, "assistant")>> :
                   p \in {q \in SendProcs : send[q].messageId # 0} }

\* handleLoadConversation, when chatApi.getMessages has resolved: the list
\* is replaced by the loaded one.
HandleLoadConversation ==
  /\ \E loaded \in LoadedConversations : messages' = loaded
  /\ UNCHANGED <<isLoading, send, undo, nextId, applyLog, undoLog, undoSucceeded, lastTrigger, planner>>

\* handleDeleteConversation, when chatApi.deleteConversation has resolved:
\* the list is emptied when the deleted conversation is the one on screen.
HandleDeleteConversation ==
  /\ \E viewing \in BOOLEAN : messages' = IF viewing THEN <<>> ELSE messages
  /\ UNCHANGED <<isLoading, send, undo, nextId, applyLog, undoLog, undoSucceeded, lastTrigger, planner>>

\* ------------------------------------------------------------- handleUndo

\* if (!msg?.undoInfo || msg.undone) return;
UndoReturnsEarlyIgnoringUndone(found) == found = None \/ found[1].undoInfo = None

UndoReturnsEarly(found) ==
  found = None \/ found[1].undoInfo = None \/ found[1].undone

\* The undo button of MessageArea is rendered for msg.undoInfo && !msg.undone.
\* It stands inside the block of the step cards, which is rendered for an
\* assistant message with at least one step.
UndoOffered(msg) ==
  /\ msg.role = "assistant"
  /\ msg.steps # None
  /\ Len(msg.steps[1]) > 0
  /\ msg.undoInfo # None
  /\ ~msg.undone

UndoCall(messageId, undoInfo) == [messageId |-> messageId, undoInfo |-> undoInfo]

\* handleUndo up to its first await: the guard, then the call of
\* undoSheetActionsGAS with the undo info of the message.
HandleUndo(u, messageId) ==
  /\ undo[u].pc = "idle"
  /\ \A v \in 1..(u - 1) : undo[v].pc # "idle"
  /\ \E k \in DOMAIN messages : messages[k].id = messageId
  /\ LET found == Find(messages, messageId)
     IN  IF UndoReturnsEarly(found)
         THEN /\ lastTrigger' = "returned"
              /\ UNCHANGED <<undo, undoLog>>
         ELSE /\ lastTrigger' = "called"
              /\ undoLog' = Append(undoLog, UndoCall(messageId, found[1].undoInfo[1]))
              /\ undo' = [undo EXCEPT ![u] = [@ EXCEPT !.pc = "awaitUndo", !.messageId = messageId]]
  /\ UNCHANGED <<messages, isLoading, send, nextId, applyLog, undoSucceeded, planner>>

\* undoSheetActionsGAS resolved: the message is marked undone, whatever the
\* result, and getAllSheets is awaited.
UndoResolved(u) ==
  /\ undo[u].pc = "awaitUndo"
  /\ \E o \in UndoOutcomes :
       /\ undo' = [undo EXCEPT ![u] = [@ EXCEPT !.pc = "awaitSheets",
                                                !.result = undoSheetActionsGAS(o)]]
       /\ undoSucceeded' = IF o.kind = "success" THEN undoSucceeded \cup {undo[u].messageId}
                           ELSE undoSucceeded
  /\ messages' = MarkUndone(messages, undo[u].messageId)
  /\ UNCHANGED <<isLoading, send, nextId, applyLog, undoLog, lastTrigger, planner>>

\* getAllSheets resolved: the confirmation message is appended.
UndoConfirmed(u) ==
  /\ undo[u].pc = "awaitSheets"
  /\ messages' = Append(messages,
                   Message(nextId, "assistant", UndoCompletePrefix \o undo[u].result, None))
  /\ nextId' = nextId + 1
  /\ undo' = [undo EXCEPT ![u] = [@ EXCEPT !.pc = "finished"]]
  /\ UNCHANGED <<isLoading, send, applyLog, undoLog, undoSucceeded, lastTrigger, planner>>

\* ---------------------------------------------------------- specification

Plans == PlansOver(PlanActions, MaxSteps)

\* The handlers of App; the responses of the server are drawn from Plans.
Next ==
  \/ \E p \in SendProcs, viaInput \in BOOLEAN : HandleSend(p, viaInput)
  \/ \E p \in SendProcs : ReceivePlan(p, Plans)
  \/ \E p \in SendProcs : ReceiveReply(p)
  \/ \E p \in SendProcs : ReceiveSheetAction(p)
  \/ \E p \in SendProcs : SheetActionResolved(p)
  \/ \E p \in SendProcs : ReceiveError(p)
  \/ \E p \in SendProcs : StepResolved(p)
  \/ \E p \in SendProcs : DelayOver(p)
  \/ \E p \in SendProcs : SendDone(p)
  \/ HandleNewChat
  \/ HandleLogout
  \/ HandleLoadConversation
  \/ HandleDeleteConversation
  \/ \E u \in UndoProcs : \E k \in DOMAIN messages : HandleUndo(u, messages[k].id)
  \/ \E u \in UndoProcs : UndoResolved(u)
  \/ \E u \in UndoProcs : UndoConfirmed(u)

Spec == Init /\ [][Next]_vars

\* SpecUndo follows up to MaxUndos handleUndo calls, which may overlap, on
\* the message of one handleSend call whose plan has one or two steps.
UndoPlanActions ==
  { SheetAction("createSheet", "Summary", "", "", ""),
    SheetAction("readRange", "", "Sheet1", "", "A1:B3") }

UndoPlans == PlansOver(UndoPlanActions, 2)

InitUndo == Mounted(1, MaxUndos) /\ planner = IdlePlanner

NextUndo ==
  \/ \E p \in SendProcs, viaInput \in BOOLEAN : HandleSend(p, viaInput)
  \/ \E p \in SendProcs : ReceivePlan(p, UndoPlans)
  \/ \E p \in SendProcs : ReceiveReply(p)
  \/ \E p \in SendProcs : ReceiveSheetAction(p)
  \/ \E p \in SendProcs : SheetActionResolved(p)
  \/ \E p \in SendProcs : ReceiveError(p)
  \/ \E p \in SendProcs : StepResolved(p)
  \/ \E p \in SendProcs : DelayOver(p)
  \/ \E p \in SendProcs : SendDone(p)
  \/ HandleNewChat
  \/ HandleLogout
  \/ HandleLoadConversation
  \/ HandleDeleteConversation
  \/ \E u \in UndoProcs : \E k \in DOMAIN messages : HandleUndo(u, messages[k].id)
  \/ \E u \in UndoProcs : UndoResolved(u)
  \/ \E u \in UndoProcs : UndoConfirmed(u)

SpecUndo == InitUndo /\ [][NextUndo]_vars

\* SpecLive follows one handleSend call and one handleUndo call as Spec
\* does, with plans of one or two steps, and states what the scheduling of
\* the run gives: a call of executeStepAction resolves (the bridge calls
\* one of its handlers, or the catch returns), the 300 ms timer fires, and
\* the rest of handleSend runs once executeSteps has returned.
SpecLive ==
  /\ Init
  /\ [][NextUndo]_vars
  /\ WF_vars(\E p \in SendProcs : StepResolved(p))
  /\ WF_vars(\E p \in SendProcs : DelayOver(p))
  /\ WF_vars(\E p \in SendProcs : SendDone(p))

\* SpecOverlap follows two handleSend calls, which may overlap, and one
\* handleUndo call, so that the message of one run can be undone while the
\* other run is between two of its calls. The plans have one or two
\* createSheet steps, at most one run of the two having two steps, and the
\* scheduling is that of SpecLive.
OverlapPlanActions == { SheetAction("createSheet", "Summary", "", "", "") }

OverlapPlans ==
  IF \E q \in SendProcs : Len(send[q].steps) = 2
  THEN PlansOver(OverlapPlanActions, 1)
  ELSE PlansOver(OverlapPlanActions, 2)

OverlapProcs == 1..2

InitOverlap == Mounted(2, 1) /\ planner = IdlePlanner

NextOverlap ==
  \/ \E p \in SendProcs, viaInput \in BOOLEAN : HandleSend(p, viaInput)
  \/ \E p \in SendProcs : ReceivePlan(p, OverlapPlans)
  \/ \E p \in SendProcs : ReceiveReply(p)
  \/ \E p \in SendProcs : ReceiveSheetAction(p)
  \/ \E p \in SendProcs : SheetActionResolved(p)
  \/ \E p \in SendProcs : ReceiveError(p)
  \/ \E p \in SendProcs : StepResolved(p)
  \/ \E p \in SendProcs : DelayOver(p)
  \/ \E p \in SendProcs : SendDone(p)
  \/ HandleNewChat
  \/ HandleLogout
  \/ HandleLoadConversation
  \/ HandleDeleteConversation
  \/ \E u \in UndoProcs : \E k \in DOMAIN messages : HandleUndo(u, messages[k].id)
  \/ \E u \in UndoProcs : UndoResolved(u)
  \/ \E u \in UndoProcs : UndoConfirmed(u)

SpecOverlap ==
  /\ InitOverlap
  /\ [][NextOverlap]_vars
  /\ WF_vars(\E p \in SendProcs : StepResolved(p))
  /\ WF_vars(\E p \in SendProcs : DelayOver(p))
  /\ WF_vars(\E p \in SendProcs : SendDone(p))

\* SpecHalt follows one handleSend call and one handleUndo call as Spec
\* does, with plans of one or two steps that write single cells and ranges
\* of a sheet that is there before the plan.
HaltPlanActions ==
  { SheetAction("createSheet", "Summary", "", "", ""),
    SheetAction("setValue", "", "Sheet1", "A1", ""),
    SheetAction("setValues", "", "Sheet1", "", "A1:B3") }

HaltPlans == PlansOver(HaltPlanActions, 2)

NextHalt ==
  \/ \E p \in SendProcs, viaInput \in BOOLEAN : HandleSend(p, viaInput)
  \/ \E p \in SendProcs : ReceivePlan(p, HaltPlans)
  \/ \E p \in SendProcs : ReceiveReply(p)
  \/ \E p \in SendProcs : ReceiveSheetAction(p)
  \/ \E p \in SendProcs : SheetActionResolved(p)
  \/ \E p \in SendProcs : ReceiveError(p)
  \/ \E p \in SendProcs : StepResolved(p)
  \/ \E p \in SendProcs : DelayOver(p)
  \/ \E p \in SendProcs : SendDone(p)
  \/ HandleNewChat
  \/ HandleLogout
  \/ HandleLoadConversation
  \/ HandleDeleteConversation
  \/ \E u \in UndoProcs : \E k \in DOMAIN messages : HandleUndo(u, messages[k].id)
  \/ \E u \in UndoProcs : UndoResolved(u)
  \/ \E u \in UndoProcs : UndoConfirmed(u)

SpecHalt == Init /\ [][NextHalt]_vars

\* SpecSession follows two handleSend calls, which may overlap, with plans
\* of one step, and one handleUndo call.
SessionPlans == PlansOver(UndoPlanActions, 1)

InitSession == Mounted(2, 1) /\ planner = IdlePlanner

NextSession ==
  \/ \E p \in SendProcs, viaInput \in BOOLEAN : HandleSend(p, viaInput)
  \/ \E p \in SendProcs : ReceivePlan(p, SessionPlans)
  \/ \E p \in SendProcs : ReceiveReply(p)
  \/ \E p \in SendProcs : ReceiveSheetAction(p)
  \/ \E p \in SendProcs : SheetActionResolved(p)
  \/ \E p \in SendProcs : ReceiveError(p)
  \/ \E p \in SendProcs : StepResolved(p)
  \/ \E p \in SendProcs : DelayOver(p)
  \/ \E p \in SendProcs : SendDone(p)
  \/ HandleNewChat
  \/ HandleLogout
  \/ HandleLoadConversation
  \/ HandleDeleteConversation
  \/ \E u \in UndoProcs : \E k \in DOMAIN messages : HandleUndo(u, messages[k].id)
  \/ \E u \in UndoProcs : UndoResolved(u)
  \/ \E u \in UndoProcs : UndoConfirmed(u)

SpecSession == InitSession /\ [][NextSession]_vars

\* ------------------------------------------- buildUndoInfo on its own

\* The actions the step lists of SpecPlanner are made of: the tracked kinds
\* on a created and on a pre-existing sheet, kinds buildUndoInfo has no
\* branch for, and actions whose optional fields are absent.
PlannerActions ==
  { SheetAction("createSheet", "Summary", "", "", ""),
    SheetAction("createSheet", "", "", "", ""),
    SheetAction("setFormula", "", "Summary", "B2", ""),
    SheetAction("setFormula", "", "Sheet1", "C1", ""),
    SheetAction("setFormula", "", "", "C1", ""),
    SheetAction("setValues", "", "Sheet1", "", "A1:B3"),
    SheetAction("setValues", "", "Summary", "", "A1:B3"),
    SheetAction("setValue", "", "Sheet1", "A1", ""),
    SheetAction("autoFillDown", "", "Sheet1", "", ""),
    SheetAction("autoFillDown", "", "Sheet1", "", "C2:C9"),
    SheetAction("readRange", "", "Sheet1", "", "A1:B3"),
    SheetAction("sort", "", "", "", ""),
    SheetAction("filter", "", "", "", ""),
    SheetAction("highlight", "", "Sheet1", "", "A1:B3"),
    SheetAction("formatRange", "", "Sheet1", "", "A1:B3"),
    SheetAction("insertColumn", "", "Sheet1", "", "") }

PlannerPlans == PlansOver(PlannerActions, MaxSteps)

InitPlanner ==
  /\ Mounted(1, 1)
  /\ planner \in { [steps |-> steps, undoInfo |-> None] : steps \in PlannerPlans }

\* const undoInfo = buildUndoInfo(steps)
BuildUndoInfo ==
  /\ planner.undoInfo = None
  /\ planner' = [planner EXCEPT !.undoInfo = Some(buildUndoInfo(planner.steps))]
  /\ UNCHANGED <<messages, isLoading, send, undo, nextId, applyLog, undoLog, undoSucceeded,
                 lastTrigger>>

NextPlanner == BuildUndoInfo

SpecPlanner == InitPlanner /\ [][NextPlanner]_vars

\* ================================================================= claims

StatusesOf(steps) == [k \in DOMAIN steps |-> steps[k].status]

\* executeSteps of call p has returned (or the response had no step and
\* executeSteps was not called).
RunEnded(p) == send[p].pc \in {"afterRun", "finished"} /\ send[p].messageId # 0

\* The message of call p with its plan, as it is in the list (None when it
\* was removed, or replaced by the stored copy, which has no steps).
MessageOf(p) ==
  LET found == Find(messages, send[p].messageId)
  IN  IF found # None /\ found[1].steps # None THEN found ELSE None

UndoCallsFor(messageId) == {n \in DOMAIN undoLog : undoLog[n].messageId = messageId}

ApplyCallsFor(messageId, j) ==
  {n \in DOMAIN applyLog : applyLog[n].messageId = messageId /\ applyLog[n].index = j}

AllDone(st) == \A k \in DOMAIN st : st[k] = "done"

HaltedAt(st, e) ==
  /\ st[e] = "error"
  /\ \A k \in 1..(e - 1) : st[k] = "done"
  /\ \A k \in (e + 1)..Len(st) : st[k] = "pending"

\* C1: after a run of executeSteps the step statuses of its message are all
\* done, or exactly one step is error, every step before it done and every
\* step after it pending.
C1_RunShape ==
  \A p \in SendProcs :
    (RunEnded(p) /\ MessageOf(p) # None) =>
      LET st == StatusesOf(MessageOf(p)[1].steps[1])
      IN  AllDone(st) \/ \E e \in DOMAIN st : HaltedAt(st, e)

\* A run has ended with statuses done, error, pending.
C1_Witness ==
  \E p \in SendProcs :
    /\ RunEnded(p)
    /\ MessageOf(p) # None
    /\ StatusesOf(MessageOf(p)[1].steps[1]) = <<"done", "error", "pending">>

DoneSteps(steps) == {k \in DOMAIN steps : steps[k].status = "done"}

DoneCreates(steps) ==
  {steps[k].action.name : k \in {j \in DoneSteps(steps) : steps[j].action.action = "createSheet"}}

DoneWrites(steps) ==
  {Cell(steps[k].action.sheet, steps[k].action.cell) :
     k \in {j \in DoneSteps(steps) : steps[j].action.action = "setFormula"}}
  \cup
  {Cell(steps[k].action.sheet, steps[k].action.range) :
     k \in {j \in DoneSteps(steps) : steps[j].action.action = "setValues"}}

\* C2: the undo info attached at the end of a run comes from the steps whose
\* final status is done only: every sheet of sheetsToDelete was created by a
\* done step and every entry of cellsToClear was written by a done step.
C2_UndoFromDoneOnly ==
  \A p \in SendProcs :
    (RunEnded(p) /\ MessageOf(p) # None /\ MessageOf(p)[1].undoInfo # None) =>
      LET msg == MessageOf(p)[1]
          info == msg.undoInfo[1]
      IN  /\ \A n \in DOMAIN info.sheetsToDelete :
               info.sheetsToDelete[n] \in DoneCreates(msg.steps[1])
          /\ \A n \in DOMAIN info.cellsToClear :
               info.cellsToClear[n] \in DoneWrites(msg.steps[1])

\* C3: undoSheetActionsGAS is called at most once for a message, whatever
\* the sequence and interleaving of handleUndo calls.
C3_UndoAtMostOnce ==
  \A n, m \in DOMAIN undoLog : undoLog[n].messageId = undoLog[m].messageId => n = m

\* C4: a handleUndo call issues undoSheetActionsGAS for a message only while
\* the undo control is offered for it, that is while it has an undo info and
\* its undone flag is false: once undone is true no trigger issues a call.
C4_NoCallOnceUndone ==
  /\ [][Len(undoLog') > Len(undoLog) =>
          LET found == Find(messages, undoLog'[Len(undoLog')].messageId)
          IN  found # None /\ found[1].undoInfo # None /\ ~found[1].undone]_vars
  /\ [](\A k \in DOMAIN messages :
          UndoOffered(messages[k]) => messages[k].undoInfo # None /\ ~messages[k].undone)

\* handleUndo was triggered for a message whose undone flag is true, and
\* returned without a call.
C4_Witness ==
  /\ lastTrigger = "returned"
  /\ Len(undoLog) = 1
  /\ \E k \in DOMAIN messages :
       messages[k].id = undoLog[1].messageId /\ messages[k].undone

\* C5: in every undo info buildUndoInfo returns, no sheet name is both in
\* sheetsToDelete and the sheet of an entry of cellsToClear.
C5_Disjoint ==
  planner.undoInfo # None =>
    LET info == planner.undoInfo[1]
    IN  \A n \in DOMAIN info.cellsToClear :
          ~Includes(info.sheetsToDelete, info.cellsToClear[n].sheet)

\* C6: after the first step that ended in error, executeStepAction is called
\* for no later step of the plan and the later steps stay pending.
C6_HaltAfterError ==
  /\ \A k \in DOMAIN messages :
       messages[k].steps # None =>
         LET st == StatusesOf(messages[k].steps[1])
         IN  \A e \in DOMAIN st :
               st[e] = "error" =>
                 \A j \in (e + 1)..Len(st) :
                   st[j] = "pending" /\ ApplyCallsFor(messages[k].id, j) = {}
  /\ \A p \in SendProcs :
       send[p].errorCount > 0 =>
         \A n \in DOMAIN applyLog :
           applyLog[n].messageId = send[p].messageId => applyLog[n].index <= send[p].i

\* handleSend has ended after a run whose first step failed and whose plan
\* has later steps: they are pending and one action call was made.
C6_Witness ==
  \E p \in SendProcs :
    /\ send[p].pc = "finished"
    /\ send[p].errorCount = 1
    /\ send[p].i = 1
    /\ Len(send[p].steps) = MaxSteps
    /\ MessageOf(p) # None
    /\ \A j \in 2..MaxSteps : MessageOf(p)[1].steps[1][j].status = "pending"
    /\ Len(applyLog) = 1

\* C7: when no step of a plan reached done, no undo info is attached to the
\* message and undoSheetActionsGAS is never called for it.
C7_NoDoneNoUndo ==
  \A p \in SendProcs :
    (RunEnded(p) /\ MessageOf(p) # None /\ DoneSteps(MessageOf(p)[1].steps[1]) = {}) =>
      /\ MessageOf(p)[1].undoInfo = None
      /\ UndoCallsFor(send[p].messageId) = {}

\* C8: the undone flag of a message is true only after a call of
\* undoSheetActionsGAS for it whose success handler ran; a result of the
\* failure handler or of the missing bridge leaves it false.
C8_UndoneOnlyAfterSuccess ==
  \A k \in DOMAIN messages : messages[k].undone => messages[k].id \in undoSucceeded

IsWrite(a) == a.action \in {"setFormula", "setValues"}

\* Step j writes into a sheet that an earlier step of the list creates.
WritesIntoCreated(steps, j) ==
  /\ IsWrite(steps[j].action)
  /\ \E i \in 1..(j - 1) :
       /\ steps[i].action.action = "createSheet"
       /\ steps[i].action.name # ""
       /\ steps[i].action.name = steps[j].action.sheet

\* C9: a setFormula or setValues step into a sheet that an earlier step of
\* the list created adds no entry to cellsToClear (the result for the list up
\* to that step has the entries of the result for the list before it); the
\* sheet is in sheetsToDelete and cellsToClear has no entry for it.
C9_CreatedSheetSubsumesWrites ==
  planner.undoInfo # None =>
    LET steps == planner.steps
        info == planner.undoInfo[1]
    IN  \A j \in DOMAIN steps :
          WritesIntoCreated(steps, j) =>
            /\ buildUndoInfo(SubSeq(steps, 1, j)).cellsToClear
                 = buildUndoInfo(SubSeq(steps, 1, j - 1)).cellsToClear
            /\ Includes(info.sheetsToDelete, steps[j].action.sheet)
            /\ (\A i \in 1..j : steps[i].action.sheet = steps[j].action.sheet
                                  => WritesIntoCreated(steps, i))
                 => \A n \in DOMAIN info.cellsToClear :
                      info.cellsToClear[n].sheet # steps[j].action.sheet

\* createSheet "Summary" then setFormula on Summary!B2 gave
\* sheetsToDelete = <<"Summary">> and no cellsToClear.
C9_Witness ==
  /\ planner.undoInfo # None
  /\ Len(planner.steps) = 2
  /\ planner.steps[1].action = SheetAction("createSheet", "Summary", "", "", "")
  /\ planner.steps[2].action = SheetAction("setFormula", "", "Summary", "B2", "")
  /\ planner.undoInfo[1] = [sheetsToDelete |-> <<"Summary">>, cellsToClear |-> <<>>]

\* A setFormula or setValues action that names its sheet and its location.
IsTrackedWrite(a) ==
  \/ a.action = "setFormula" /\ a.sheet # "" /\ a.cell # ""
  \/ a.action = "setValues" /\ a.sheet # "" /\ a.range # ""

WriteEntry(a) ==
  IF a.action = "setFormula" THEN Cell(a.sheet, a.cell) ELSE Cell(a.sheet, a.range)

RECURSIVE WriteEntries(_)
WriteEntries(steps) ==
  IF steps = <<>> THEN <<>>
  ELSE (IF IsTrackedWrite(Head(steps).action) THEN <<WriteEntry(Head(steps).action)>> ELSE <<>>)
       \o WriteEntries(Tail(steps))

CreatedNames(steps) ==
  {steps[k].action.name :
     k \in {j \in DOMAIN steps : steps[j].action.action = "createSheet"
                                   /\ steps[j].action.name # ""}}

\* The tracked writes of the list are all on sheets the list does not create.
WritesOutsideCreated(steps) ==
  \A k \in DOMAIN steps :
    IsTrackedWrite(steps[k].action) => steps[k].action.sheet \notin CreatedNames(steps)

SheetsIn(list) == {list[k] : k \in DOMAIN list}

\* C10, as stated: for a step list whose setValues and setFormula steps are
\* all on sheets the list does not create, cellsToClear is exactly the
\* (sheet, location) entries of those steps in the order of the steps, and
\* sheetsToDelete is empty.
C10_AsStated ==
  (planner.undoInfo # None /\ WritesOutsideCreated(planner.steps))
    => /\ planner.undoInfo[1].cellsToClear = WriteEntries(planner.steps)
       /\ planner.undoInfo[1].sheetsToDelete = <<>>

\* C10, amended: for a step list whose setValues and setFormula steps are
\* all on sheets the list does not create, cellsToClear is exactly the
\* (sheet, location) entries of those steps in the order of the steps, the
\* range for setValues and the cell for setFormula, and sheetsToDelete holds
\* the names of the sheets the list creates and no other: it is empty when
\* the list creates no sheet.
C10_WritesInOrder ==
  (planner.undoInfo # None /\ WritesOutsideCreated(planner.steps))
    => /\ planner.undoInfo[1].cellsToClear = WriteEntries(planner.steps)
       /\ SheetsIn(planner.undoInfo[1].sheetsToDelete) = CreatedNames(planner.steps)
       /\ CreatedNames(planner.steps) = {} => planner.undoInfo[1].sheetsToDelete = <<>>

\* createSheet Summary, setValues Sheet1!A1:B3 then setFormula Sheet1!C1 gave
\* the two entries in that order, and the created sheet to delete.
C10_Witness ==
  /\ planner.undoInfo # None
  /\ Len(planner.steps) = 3
  /\ planner.steps[1].action = SheetAction("createSheet", "Summary", "", "", "")
  /\ planner.steps[2].action = SheetAction("setValues", "", "Sheet1", "", "A1:B3")
  /\ planner.steps[3].action = SheetAction("setFormula", "", "Sheet1", "C1", "")
  /\ planner.undoInfo[1] =
       [sheetsToDelete |-> <<"Summary">>,
        cellsToClear |-> <<Cell("Sheet1", "A1:B3"), Cell("Sheet1", "C1")>>]

\* The steps of an autoFillDown action that names a sheet and a range while
\* the sheet is not in sheetsToDelete, as buildUndoInfo reaches them.
FillSteps(steps) ==
  {k \in DOMAIN steps :
     /\ steps[k].action.action = "autoFillDown"
     /\ Truthy(steps[k].action.sheet)
     /\ Truthy(steps[k].action.range)
     /\ ~Includes(buildUndoInfo(SubSeq(steps, 1, k - 1)).sheetsToDelete, steps[k].action.sheet)}

\* C11: an autoFillDown step that targets a sheet not present in
\* sheetsToDelete appends the entry (sheet, range) of the filled range to
\* cellsToClear.
C11_FillDownTracked ==
  planner.undoInfo # None =>
    \A k \in FillSteps(planner.steps) :
      buildUndoInfo(SubSeq(planner.steps, 1, k)).cellsToClear =
        Append(buildUndoInfo(SubSeq(planner.steps, 1, k - 1)).cellsToClear,
               Cell(planner.steps[k].action.sheet, planner.steps[k].action.range))

\* The kinds of action that change no cell and no sheet.
NonMutatingKinds == {"readRange", "sort", "filter", "highlight"}

NonMutating(steps) == \A k \in DOMAIN steps : steps[k].action.action \in NonMutatingKinds

\* C12: for a response with no step, and for a plan of non-mutating actions
\* only, the undo info is empty on both sides and the message carries none,
\* so that no undo button is rendered for it.
C12_NothingToUndo ==
  \A p \in SendProcs :
    (RunEnded(p) /\ NonMutating(send[p].steps)) =>
      /\ buildUndoInfo(send[p].steps) = EmptyUndoInfo
      /\ \A k \in DOMAIN messages :
           messages[k].id = send[p].messageId =>
             messages[k].undoInfo = None /\ ~UndoOffered(messages[k])

\* A plan of two non-mutating steps has run, both done, and its message is
\* in the list.
C12_Witness ==
  \E p \in SendProcs :
    /\ RunEnded(p)
    /\ Len(send[p].steps) = 2
    /\ NonMutating(send[p].steps)
    /\ MessageOf(p) # None
    /\ AllDone(StatusesOf(MessageOf(p)[1].steps[1]))
    /\ MessageOf(p)[1].undoInfo = None

\* The moves of a step status: none, pending to executing, executing to
\* done, executing to error.
StatusMove(a, b) ==
  \/ a = b
  \/ a = "pending" /\ b = "executing"
  \/ a = "executing" /\ b \in {"done", "error"}

\* The messages of a list that carry steps.
WithSteps(msgs) == {k \in DOMAIN msgs : msgs[k].steps # None}

\* C13: a step is created pending (the first one is marked executing in the
\* block that creates it) and its status moves only from pending to
\* executing and from executing to done or to error; done and error are
\* final.
C13_StatusMoves ==
  [][\A k \in WithSteps(messages') :
       LET after == StatusesOf(messages'[k].steps[1])
           before == {j \in WithSteps(messages) : messages[j].id = messages'[k].id}
       IN  IF before = {}
           THEN \A idx \in DOMAIN after :
                  after[idx] = "pending" \/ (idx = 1 /\ after[idx] = "executing")
           ELSE \A j \in before :
                  LET st == StatusesOf(messages[j].steps[1])
                  IN  /\ DOMAIN st = DOMAIN after
                      /\ \A idx \in DOMAIN st : StatusMove(st[idx], after[idx])]_vars

\* The first step is done, the second executing and the third pending.
C13_Witness ==
  \E k \in WithSteps(messages) :
    StatusesOf(messages[k].steps[1]) = <<"done", "executing", "pending">>

\* The handleSend calls whose executeSteps is between its start and its end.
Executing == {p \in SendProcs : send[p].pc \in {"awaitAction", "delay"}}

\* C14: at most one plan is executing at any time, whichever entry point
\* the handleSend calls came through.
C14_OnePlanAtATime == Cardinality(Executing) <= 1

\* C15: when a run ends with a non-empty computed undo info, the message of
\* the plan carries exactly that undo info from the end of the run on,
\* whatever the user did while the run was in flight.
C15_UndoInfoReachesMessage ==
  [][\A p \in SendProcs :
       (/\ p \in Executing
        /\ send'[p].pc = "afterRun"
        /\ buildUndoInfo(send[p].steps) # EmptyUndoInfo)
       => /\ MessageOf(p)' # None
          /\ MessageOf(p)'[1].undoInfo = Some(buildUndoInfo(send[p].steps))]_vars

\* The indices of the executeStepAction calls made for a message, in order.
RECURSIVE IndicesFor(_, _)
IndicesFor(log, messageId) ==
  IF log = <<>> THEN <<>>
  ELSE IF Head(log).messageId = messageId
       THEN <<Head(log).index>> \o IndicesFor(Tail(log), messageId)
       ELSE IndicesFor(Tail(log), messageId)

\* The number of calls a run ends with: up to the failing step when there
\* is one, every step otherwise.
CallsDue(s) == IF s.errorCount = 1 THEN s.successCount + 1 ELSE Len(s.steps)

\* The confirmation messages of handleUndo appended after message id was.
ConfirmedAfter(id) ==
  {k \in DOMAIN messages :
     /\ messages[k].id > id
     /\ messages[k].role = "assistant"
     /\ messages[k].steps = None
     /\ StartsWith(messages[k].content, UndoCompletePrefix)}

\* C16: a plan that has started runs to its end, whatever the user does
\* meanwhile (new chat, logout, loading or deleting a conversation, undo of
\* the message of another run), and at the end executeStepAction has been
\* called once for every step up to and including the first failing one,
\* in order.
C16_RunsToItsEnd ==
  /\ \A p \in OverlapProcs : [](send[p].pc \in {"awaitAction", "delay"} => <>RunEnded(p))
  /\ [](\A p \in SendProcs :
          (RunEnded(p) /\ send[p].steps # <<>>) =>
            IndicesFor(applyLog, send[p].messageId) = [k \in 1..CallsDue(send[p]) |-> k])

\* A two-step run has made its second call after the message of the other
\* run was undone during it: the undo was called for that message, which is
\* marked undone, and its confirmation was appended after the plan of the
\* two-step run had been received.
C16_Witness ==
  \E p, q \in SendProcs :
    /\ p # q
    /\ send[p].pc = "awaitAction"
    /\ Len(send[p].steps) = 2
    /\ send[p].i = 2
    /\ IndicesFor(applyLog, send[p].messageId) = <<1, 2>>
    /\ undo[1].pc = "finished"
    /\ undo[1].messageId = send[q].messageId
    /\ MessageOf(q) # None
    /\ MessageOf(q)[1].undone
    /\ ConfirmedAfter(send[p].messageId) # {}

ExecutingSteps(steps) == {k \in DOMAIN steps : steps[k].status = "executing"}

\* The number of executeStepAction calls call p has made.
CallsMade(p) == IF send[p].i <= Len(send[p].steps) THEN send[p].i ELSE Len(send[p].steps)

\* C17: the steps of a plan are applied in list order and never overlap: a
\* message has at most one executing step, the calls made for it are those
\* of steps 1, 2, ... in this order, all resolved but the last while it is
\* awaited, and every step before the last one called is done.
C17_InOrderNoOverlap ==
  /\ \A k \in WithSteps(messages) : Cardinality(ExecutingSteps(messages[k].steps[1])) <= 1
  /\ \A p \in SendProcs :
       (send[p].messageId # 0 /\ send[p].steps # <<>>) =>
         /\ IndicesFor(applyLog, send[p].messageId) = [k \in 1..CallsMade(p) |-> k]
         /\ send[p].successCount + send[p].errorCount =
              IF send[p].pc = "awaitAction" THEN CallsMade(p) - 1 ELSE CallsMade(p)
         /\ MessageOf(p) # None =>
              LET st == StatusesOf(MessageOf(p)[1].steps[1])
              IN  /\ \A k \in 1..(CallsMade(p) - 1) : st[k] = "done"
                  /\ ExecutingSteps(MessageOf(p)[1].steps[1]) =
                       IF send[p].pc = "awaitAction" THEN {CallsMade(p)} ELSE {}

\* The call for the second step has been made and is awaited, the first
\* step done.
C17_Witness ==
  \E p \in SendProcs :
    /\ send[p].pc = "awaitAction"
    /\ IndicesFor(applyLog, send[p].messageId) = <<1, 2>>
    /\ MessageOf(p) # None
    /\ MessageOf(p)[1].steps[1][1].status = "done"
    /\ MessageOf(p)[1].steps[1][2].status = "executing"

\* The text begins with the five characters E, r, r, o, r.
BeginsWithError(text) ==
  /\ Len(text) >= 5
  /\ text[1] = "E" /\ text[2] = "r" /\ text[3] = "r" /\ text[4] = "o" /\ text[5] = "r"

\* Call p holds the text executeStepAction returned for step i.
HoldsResult(p) ==
  /\ send[p].pc \in {"delay", "afterRun"}
  /\ send[p].i <= Len(send[p].steps)

\* C18: the final status of a step is error exactly when the text returned
\* for it begins with "Error", and done otherwise; the returned text is
\* stored as the result of the step in both cases.
C18_StatusFromText ==
  /\ \A k \in WithSteps(messages) : \A idx \in DOMAIN messages[k].steps[1] :
       LET step == messages[k].steps[1][idx]
       IN  IF step.status \in {"done", "error"}
           THEN /\ step.result # None
                /\ step.status = "error" <=> BeginsWithError(step.result[1])
           ELSE step.result = None
  /\ \A p \in SendProcs :
       (HoldsResult(p) /\ MessageOf(p) # None) =>
         LET step == MessageOf(p)[1].steps[1][send[p].i]
         IN  /\ step.result = Some(send[p].result)
             /\ step.status = IF BeginsWithError(send[p].result) THEN "error" ELSE "done"

\* A step whose returned text is "Action failed: boom" is done and another
\* whose text is "Error: invalid range" is error, each with its text.
C18_Witness ==
  \E p \in SendProcs :
    /\ HoldsResult(p)
    /\ MessageOf(p) # None
    /\ send[p].i = 2
    /\ send[p].result = TxtInvalid
    /\ MessageOf(p)[1].steps[1][1].status = "done"
    /\ MessageOf(p)[1].steps[1][1].result = Some(ActionFailedPrefix \o TxtBoom)
    /\ MessageOf(p)[1].steps[1][2].status = "error"

\* The text executeSheetAction returns when the external effect failed: the
\* failure handler of the bridge ran, or the bridge is not there.
ReportsFailure(text) == StartsWith(text, ActionFailedPrefix) \/ text = NotInSheets

\* C19: when the external effect of a step fails, through the failure
\* handler of the bridge or because the bridge is unavailable, the step ends
\* in error with the error text stored and the plan halts.
C19_FailureHalts ==
  \A p \in SendProcs :
    (HoldsResult(p) /\ ReportsFailure(send[p].result)) =>
      /\ send[p].pc = "afterRun"
      /\ send[p].errorCount = 1
      /\ MessageOf(p) # None =>
           /\ MessageOf(p)[1].steps[1][send[p].i].status = "error"
           /\ MessageOf(p)[1].steps[1][send[p].i].result = Some(send[p].result)

\* The messages of a list with the given id that carry an undo info.
WithUndoInfo(msgs, id) == {j \in DOMAIN msgs : msgs[j].id = id /\ msgs[j].undoInfo # None}

\* C20: a message receives its undo info in the step that ends the run of
\* its plan and in no other: then the run makes no further call, no step of
\* the message is executing, and the undo info is the one computed from the
\* plan; a message with its plan keeps the undo info it has for as long as
\* it is in the list.
C20_AttachedOnceAtTheEnd ==
  [][\A k \in DOMAIN messages' :
       LET msg == messages'[k]
       IN  msg.undoInfo # None =>
             IF WithUndoInfo(messages, msg.id) = {}
             THEN /\ \E p \in Executing :
                       /\ send[p].messageId = msg.id
                       /\ send'[p].pc = "afterRun"
                       /\ msg.undoInfo = Some(buildUndoInfo(send[p].steps))
                  /\ applyLog' = applyLog
                  /\ msg.steps # None => ExecutingSteps(msg.steps[1]) = {}
             ELSE \A j \in WithUndoInfo(messages, msg.id) :
                    msg.undoInfo = messages[j].undoInfo]_vars
  /\ [][\A j \in WithSteps(messages), k \in WithSteps(messages') :
          (messages[j].id = messages'[k].id /\ messages[j].undoInfo # None)
            => messages'[k].undoInfo = messages[j].undoInfo]_vars

\* The undo info attached at the end of a run is still on the message after
\* the message was undone.
C20_Witness ==
  \E p \in SendProcs :
    /\ RunEnded(p)
    /\ MessageOf(p) # None
    /\ MessageOf(p)[1].undone
    /\ MessageOf(p)[1].undoInfo = Some(buildUndoInfo(send[p].steps))

\* The kinds of action that write a cell or a range, with the field that
\* holds the location.
WritesCell(a) == a.action \in {"setFormula", "setValue"} /\ a.sheet # "" /\ a.cell # ""

WritesRange(a) == a.action \in {"setValues", "autoFillDown"} /\ a.sheet # "" /\ a.range # ""

\* The undo info reverses the effect of the action: the sheet it created is
\* in sheetsToDelete, the cell or range it wrote is in cellsToClear or on a
\* sheet of sheetsToDelete.
Reverses(info, a) ==
  /\ (a.action = "createSheet" /\ a.name # "") => Includes(info.sheetsToDelete, a.name)
  /\ WritesCell(a) =>
       Includes(info.sheetsToDelete, a.sheet) \/ Includes(info.cellsToClear, Cell(a.sheet, a.cell))
  /\ WritesRange(a) =>
       Includes(info.sheetsToDelete, a.sheet) \/ Includes(info.cellsToClear, Cell(a.sheet, a.range))

\* The undo info a message carries, the empty one when it carries none.
InfoOf(msg) == IF msg.undoInfo = None THEN EmptyUndoInfo ELSE msg.undoInfo[1]

\* C21: when a run has halted on a failed step, the steps before it are
\* done and the sheets they created and the cells and ranges they wrote are
\* in the undo info of the message.
C21_HaltKeepsDoneSteps ==
  \A p \in SendProcs :
    (RunEnded(p) /\ send[p].errorCount = 1 /\ MessageOf(p) # None) =>
      LET msg == MessageOf(p)[1]
      IN  \A k \in 1..send[p].successCount :
            /\ msg.steps[1][k].status = "done"
            /\ Reverses(InfoOf(msg), msg.steps[1][k].action)

\* C22: there is no retry: executeStepAction is called at most once for a
\* step, hence at most n times for a plan of n steps, and when every call
\* resolves the run ends, with the undo info computed.
C22_NoRetryAndEnds ==
  /\ [](\A j \in DOMAIN send[1].steps :
          Cardinality(ApplyCallsFor(send[1].messageId, j)) <= 1)
  /\ [](Len(IndicesFor(applyLog, send[1].messageId)) <= Len(send[1].steps))
  /\ (send[1].pc = "awaitAction") ~> (send[1].pc = "afterRun")

\* A run of two steps has ended without an error after two calls.
C22_Witness ==
  /\ send[1].pc = "afterRun"
  /\ send[1].errorCount = 0
  /\ Len(send[1].steps) = 2
  /\ Len(IndicesFor(applyLog, send[1].messageId)) = 2

\* The handleSend calls that have started and not ended.
InFlight ==
  {p \in SendProcs :
     send[p].pc \in {"awaitResponse", "awaitSheetAction", "awaitAction", "delay", "afterRun"}}

\* C23: a failed step does not block the session: the run has ended, the
\* rest of handleSend can run, once no handleSend call is in flight
\* isLoading is false again, and then the next message can be submitted
\* from the input box.
C23_FailureDoesNotBlock ==
  \A p \in SendProcs :
    send[p].errorCount = 1 =>
      /\ RunEnded(p)
      /\ send[p].pc = "afterRun" => ENABLED SendDone(p)
      /\ InFlight = {} => ~isLoading
      /\ \A q \in SendProcs :
           (InFlight = {} /\ send[q].pc = "idle" /\ \A r \in 1..(q - 1) : send[r].pc # "idle")
             => ENABLED HandleSend(q, TRUE)

\* The run of the first message halted on an error, and the plan of a
\* second message, submitted after the first plan had arrived, was executed
\* to its end; both handleSend calls have ended and isLoading is false.
C23_Witness ==
  /\ send[1].errorCount = 1
  /\ send[1].pc = "finished"
  /\ send[2].pc = "finished"
  /\ send[2].successCount = 1
  /\ send[2].userId > send[1].messageId
  /\ ~isLoading

\* C24: the undone flag of a message is never reset: a message with its
\* plan that is undone is undone in every later state in which it is in the
\* list.
C24_UndoneStays ==
  [][\A j \in WithSteps(messages), k \in WithSteps(messages') :
       (messages[j].id = messages'[k].id /\ messages[j].undone) => messages'[k].undone]_vars

\* A message is undone and a second undoSheetActionsGAS call for it has
\* resolved after the first.
C24_Witness ==
  \E k \in WithSteps(messages) :
    /\ messages[k].undone
    /\ Cardinality({u \in UndoProcs : undo[u].messageId = messages[k].id
                                       /\ undo[u].pc \in {"awaitSheets", "finished"}}) = 2

\* The kinds with no trackable single-location mutation.
UntrackedKinds == {"filter", "sort", "highlight", "formatRange", "insertColumn", "readRange"}

KeepsStep(step) == step.action.action \notin UntrackedKinds

\* C25: steps of the kinds filter, sort, highlight, formatRange,
\* insertColumn and readRange add nothing to the undo info, also among
\* tracked steps: the undo info of a step list is the undo info of the list
\* with those steps removed.
C25_UntrackedKindsAddNothing ==
  planner.undoInfo # None =>
    planner.undoInfo[1] = buildUndoInfo(SelectSeq(planner.steps, KeepsStep))

\* A created sheet, a formatRange on another sheet and a setValues on it:
\* the undo info holds the sheet and the range of the setValues alone.
C25_Witness ==
  /\ planner.steps = <<StepAction(1, SheetAction("createSheet", "Summary", "", "", "")),
                       StepAction(2, SheetAction("formatRange", "", "Sheet1", "", "A1:B3")),
                       StepAction(3, SheetAction("setValues", "", "Sheet1", "", "A1:B3"))>>
  /\ planner.undoInfo = Some([sheetsToDelete |-> <<"Summary">>,
                              cellsToClear |-> <<Cell("Sheet1", "A1:B3")>>])

\* The part of a step that executeSteps leaves alone.
PlanPart(step) == [step |-> step.step, description |-> step.description, action |-> step.action]

\* The part of a message that executeSteps leaves alone.
Rest(msg) == [id |-> msg.id, role |-> msg.role, content |-> msg.content, undone |-> msg.undone]

\* C26: a step of executeSteps for a message changes, in the list, nothing
\* but the status and result of the step it is running (and, at the end,
\* the undo info of the message): the list keeps its length, every other
\* message and every other step is the same, and the steps of the message
\* keep their number, order, index, description and action, those of the
\* plan received.
C26_PlanUnchanged ==
  [][\A p \in Executing :
       send'[p] # send[p] =>
         /\ Len(messages') = Len(messages)
         /\ \A k \in DOMAIN messages :
              IF messages[k].id # send[p].messageId
              THEN messages'[k] = messages[k]
              ELSE /\ Rest(messages'[k]) = Rest(messages[k])
                   /\ IF messages[k].steps = None THEN messages'[k].steps = None
                      ELSE /\ messages'[k].steps # None
                           /\ DOMAIN messages'[k].steps[1] = DOMAIN send[p].steps
                           /\ \A idx \in DOMAIN messages[k].steps[1] :
                                /\ PlanPart(messages'[k].steps[1][idx]) = send[p].steps[idx]
                                /\ idx # send'[p].i =>
                                     messages'[k].steps[1][idx] = messages[k].steps[1][idx]]_vars

\* The third step of a plan is executing, the first two done, beside the
\* message of the user.
C26_Witness ==
  \E p \in SendProcs :
    /\ send[p].pc = "awaitAction"
    /\ send[p].i = 3
    /\ MessageOf(p) # None
    /\ StatusesOf(MessageOf(p)[1].steps[1]) = <<"done", "done", "executing">>
    /\ \E k \in DOMAIN messages : messages[k].id = send[p].userId

ErrorSteps(steps) == {k \in DOMAIN steps : steps[k].status = "error"}

\* C27: at the end of a run the counts reported to trackStepsExecuted match
\* the statuses: success_count is the number of done steps, error_count is
\* 0 or 1 and the number of error steps, and when it is 1 the error step is
\* the one at position success_count + 1.
C27_SummaryMatches ==
  \A p \in SendProcs :
    (RunEnded(p) /\ MessageOf(p) # None) =>
      LET steps == MessageOf(p)[1].steps[1]
      IN  /\ send[p].successCount = Cardinality(DoneSteps(steps))
          /\ send[p].errorCount \in {0, 1}
          /\ send[p].errorCount = Cardinality(ErrorSteps(steps))
          /\ send[p].errorCount = 1 => ErrorSteps(steps) = {send[p].successCount + 1}

\* A run of three steps has ended with two done steps and the third in
\* error, reported as 2 and 1.
C27_Witness ==
  \E p \in SendProcs :
    /\ RunEnded(p)
    /\ MessageOf(p) # None
    /\ send[p].successCount = 2
    /\ send[p].errorCount = 1
    /\ MessageOf(p)[1].steps[1][3].status = "error"

\* C28: sheetsToDelete is a set: no sheet name occurs in it twice, for any
\* step list, also one with two createSheet steps of the same name.
C28_SheetsToDeleteIsASet ==
  planner.undoInfo # None =>
    LET sheets == planner.undoInfo[1].sheetsToDelete
    IN  \A n, m \in DOMAIN sheets : sheets[n] = sheets[m] => n = m

\* C29: a setValue step that writes a cell of a sheet the step list does
\* not create has its entry (sheet, cell) in cellsToClear.
C29_SetValueReversible ==
  planner.undoInfo # None =>
    \A k \in DOMAIN planner.steps :
      LET a == planner.steps[k].action
      IN  (a.action = "setValue" /\ a.sheet # "" /\ a.cell # ""
           /\ a.sheet \notin CreatedNames(planner.steps))
            => Includes(planner.undoInfo[1].cellsToClear, Cell(a.sheet, a.cell))

\* The list after is the list before with the undone flag of the messages
\* of the given id set.
OnlyUndoneSet(before, after, messageId) ==
  /\ Len(after) = Len(before)
  /\ \A k \in DOMAIN before :
       \/ after[k] = before[k]
       \/ before[k].id = messageId /\ after[k] = [before[k] EXCEPT !.undone = TRUE]

\* The list after is the list before with one new assistant message at the
\* end, which carries no steps and no undo info.
OnlyAppended(before, after) ==
  /\ Len(after) = Len(before) + 1
  /\ SubSeq(after, 1, Len(before)) = before
  /\ LET new == after[Len(after)]
     IN  /\ new.role = "assistant"
         /\ new.steps = None /\ new.undoInfo = None /\ ~new.undone
         /\ \A k \in DOMAIN before : before[k].id # new.id

\* C30: a step of handleUndo for a message changes nothing in the list but
\* the undone flag of that message, or appends the confirmation message:
\* steps, statuses and undo info of the message and every other message
\* are the same.
C30_UndoChangesUndoneOnly ==
  [][\A u \in UndoProcs :
       undo'[u] # undo[u] =>
         \/ messages' = messages
         \/ OnlyUndoneSet(messages, messages', undo[u].messageId)
         \/ OnlyAppended(messages, messages')]_vars

\* handleUndo has ended for a message that still has its steps and its undo
\* info, is undone, and is followed by the confirmation message.
C30_Witness ==
  \E u \in UndoProcs, k \in WithSteps(messages) :
    /\ undo[u].pc = "finished"
    /\ messages[k].id = undo[u].messageId
    /\ messages[k].undone
    /\ messages[k].undoInfo # None
    /\ AllDone(StatusesOf(messages[k].steps[1]))
    /\ StartsWith(messages[Len(messages)].content, UndoCompletePrefix)

====
